---- MODULE Spec2Model ----
(***************************************************************************)
(* Name resolution of the `Variants` derive macro (beerec-variants).       *)
(*                                                                         *)
(* A string is a sequence of Unicode code points; its length in bytes is   *)
(* the sum of the UTF-8 widths of its code points, as for a Rust `String`. *)
(* An `Option<T>` is a sequence of at most one element.  A call that       *)
(* panics yields the value Panic, which every caller passes on (the        *)
(* unwinding of the macro).                                                *)
(***************************************************************************)
EXTENDS Integers, Naturals, Sequences, FiniteSets, TLC

\* ------------------------------------------------------------------ bounds

\* Longest identifier of a variant, in bytes.
MaxIdentBytes == 4

\* The code points strings are drawn from: 'A', 'b' and the two-byte
\* uppercase letter U+00C9.
Alphabet == {65, 98, 201}

\* ------------------------------------------------------------ Option, panic

None == <<>>

Some(x) == <<x>>

\* The outcome of a call that panicked; no string holds a negative code point.
Panic == <<-1>>

\* ------------------------------------------------------------ char and str

\* char::len_utf8
len_utf8(c) ==
    IF c < 128 THEN 1 ELSE IF c < 2048 THEN 2 ELSE IF c < 65536 THEN 3 ELSE 4

\* String::len, the length in bytes
RECURSIVE len(_)
len(s) == IF s = <<>> THEN 0 ELSE len_utf8(Head(s)) + len(Tail(s))

\* u8::to_ascii_uppercase on the code points below 128, others unchanged
to_ascii_uppercase(c) == IF c >= 97 /\ c <= 122 THEN c - 32 ELSE c

\* u8::to_ascii_lowercase on the code points below 128, others unchanged
to_ascii_lowercase(c) == IF c >= 65 /\ c <= 90 THEN c + 32 ELSE c

\* char::to_lowercase, the Unicode mapping: ASCII and Latin-1 capitals move
\* by 32, U+0130 expands to two code points, any other code point of the
\* alphabets used here has no lowercase mapping.
char_to_lowercase(c) ==
    IF c >= 65 /\ c <= 90 THEN <<c + 32>>
    ELSE IF c >= 192 /\ c <= 222 /\ c # 215 THEN <<c + 32>>
    ELSE IF c = 304 THEN <<105, 775>>
    ELSE <<c>>

\* str::make_ascii_uppercase
make_ascii_uppercase(s) == [i \in 1..Len(s) |-> to_ascii_uppercase(s[i])]

\* str::make_ascii_lowercase
make_ascii_lowercase(s) == [i \in 1..Len(s) |-> to_ascii_lowercase(s[i])]

\* str::to_lowercase
RECURSIVE str_to_lowercase(_)
str_to_lowercase(s) ==
    IF s = <<>> THEN <<>>
    ELSE char_to_lowercase(Head(s)) \o str_to_lowercase(Tail(s))

\* The longest prefix of s that ends at or before byte n.
RECURSIVE prefix_upto(_, _)
prefix_upto(s, n) ==
    IF s = <<>> \/ len_utf8(Head(s)) > n THEN <<>>
    ELSE <<Head(s)>> \o prefix_upto(Tail(s), n - len_utf8(Head(s)))

\* str::is_char_boundary
is_char_boundary(s, n) == n = len(s) \/ (n < len(s) /\ len(prefix_upto(s, n)) = n)

\* String::truncate: no effect when new_len is not below the length,
\* a panic when new_len is not on a char boundary.
truncate(s, new_len) ==
    IF new_len >= len(s) THEN s
    ELSE IF is_char_boundary(s, new_len) THEN prefix_upto(s, new_len)
    ELSE Panic

\* ------------------------------------------------ StringExt (string.rs)

\* The width of an abbreviation, in bytes.
AbbrWidth == 3

\* The case bit of every ASCII letter flipped, not set.
to_swapcase_in_place(s) ==
    [i \in 1..Len(s) |->
        IF s[i] >= 97 /\ s[i] <= 122 THEN s[i] - 32
        ELSE IF s[i] >= 65 /\ s[i] <= 90 THEN s[i] + 32
        ELSE s[i]]

\* StringExt::to_uppercase_in_place
to_uppercase_in_place(s) == make_ascii_uppercase(s)

\* StringExt::to_lowercase_in_place
to_lowercase_in_place(s) == make_ascii_lowercase(s)

\* A slip of to_abbr_in_place: the cut one byte late.
to_abbr_in_place_late(s) == truncate(s, AbbrWidth + 1)

\* StringExt::to_abbr_in_place
to_abbr_in_place(s) == truncate(s, AbbrWidth)

\* ---------------------------------------------------- IdentExt (ident.rs)

\* Ident::to_string
to_string(ident) == ident

\* IdentExt::to_uppercase_string
to_uppercase_string(ident) == to_uppercase_in_place(to_string(ident))

\* IdentExt::to_lowercase_string
to_lowercase_string(ident) == str_to_lowercase(to_string(ident))

\* IdentExt::to_string_abbr
to_string_abbr(ident) == to_abbr_in_place(to_string(ident))

\* IdentExt::to_uppercase_string_abbr
to_uppercase_string_abbr(ident) ==
    LET abbr == to_string_abbr(ident)
    IN  IF abbr = Panic THEN Panic ELSE to_uppercase_in_place(abbr)

\* The slip of to_lowercase_string made here too: str::to_lowercase.
to_lowercase_string_abbr_unicode(ident) ==
    LET abbr == to_string_abbr(ident)
    IN  IF abbr = Panic THEN Panic ELSE str_to_lowercase(abbr)

\* IdentExt::to_lowercase_string_abbr
to_lowercase_string_abbr(ident) ==
    LET abbr == to_string_abbr(ident)
    IN  IF abbr = Panic THEN Panic ELSE to_lowercase_in_place(abbr)

\* ------------------------------------------------------ rename strategies

\* InnerRenameStrategy
Literal(literal) == [tag |-> "Literal", literal |-> literal]

Uppercase == [tag |-> "Uppercase", literal |-> <<>>]

Lowercase == [tag |-> "Lowercase", literal |-> <<>>]

\* OuterRenameStrategy has the two case strategies only.
OuterRenameStrategy == {Uppercase, Lowercase}

\* ------------------------------------------ TargetVariant (target/variant.rs)

\* TargetVariant::inner_rename
inner_rename(self) ==
    IF self.rename = None THEN None
    ELSE LET strategy == self.rename[1]
         IN  CASE strategy.tag = "Literal" -> Some(strategy.literal)
               [] strategy.tag = "Uppercase" -> Some(to_uppercase_string(self.ident))
               [] strategy.tag = "Lowercase" -> Some(to_lowercase_string(self.ident))

\* TargetVariant::outer_rename
outer_rename(self, outer) ==
    CASE outer = Some(Uppercase) -> to_uppercase_string(self.ident)
      [] outer = Some(Lowercase) -> to_lowercase_string(self.ident)
      [] outer = None -> to_string(self.ident)

\* A slip of as_str: the type-level strategy is asked first.
as_str_outer_first(self, outer) ==
    IF outer # None THEN outer_rename(self, outer)
    ELSE IF inner_rename(self) # None THEN inner_rename(self)[1]
    ELSE to_string(self.ident)

\* TargetVariant::as_str
as_str(self, outer) ==
    IF inner_rename(self) # None THEN inner_rename(self)[1]
    ELSE outer_rename(self, outer)

\* The closure of inner_rename_abbr_uppercase and outer_rename_abbr_uppercase:
\* name.into_owned().to_uppercase_in_place().to_abbr_in_place()
uppercase_then_abbr(name) == to_abbr_in_place(to_uppercase_in_place(name))

\* The closure of inner_rename_abbr_lowercase and outer_rename_abbr_lowercase:
\* name.into_owned().to_lowercase_in_place().to_abbr_in_place()
lowercase_then_abbr(name) == to_abbr_in_place(to_lowercase_in_place(name))

\* TargetVariant::inner_rename_abbr_uppercase
inner_rename_abbr_uppercase(self) ==
    IF inner_rename(self) # None THEN uppercase_then_abbr(inner_rename(self)[1])
    ELSE to_uppercase_string_abbr(self.ident)

\* TargetVariant::inner_rename_abbr_lowercase
inner_rename_abbr_lowercase(self) ==
    IF inner_rename(self) # None THEN lowercase_then_abbr(inner_rename(self)[1])
    ELSE to_lowercase_string_abbr(self.ident)

\* A slip of inner_rename_abbr: the literal is abbreviated as well.
inner_rename_abbr_cut_literal(self) ==
    IF self.rename_abbr = None THEN None
    ELSE LET strategy == self.rename_abbr[1]
         IN  CASE strategy.tag = "Literal" -> Some(to_abbr_in_place(strategy.literal))
               [] strategy.tag = "Uppercase" -> Some(inner_rename_abbr_uppercase(self))
               [] strategy.tag = "Lowercase" -> Some(inner_rename_abbr_lowercase(self))

\* TargetVariant::inner_rename_abbr
inner_rename_abbr(self) ==
    IF self.rename_abbr = None THEN None
    ELSE LET strategy == self.rename_abbr[1]
         IN  CASE strategy.tag = "Literal" -> Some(strategy.literal)
               [] strategy.tag = "Uppercase" -> Some(inner_rename_abbr_uppercase(self))
               [] strategy.tag = "Lowercase" -> Some(inner_rename_abbr_lowercase(self))

\* A slip of outer_rename_abbr_uppercase: the variant's own rename is not read.
outer_rename_abbr_uppercase_of_ident(self) == to_uppercase_string_abbr(self.ident)

\* TargetVariant::outer_rename_abbr_uppercase
outer_rename_abbr_uppercase(self) ==
    IF inner_rename(self) # None THEN uppercase_then_abbr(inner_rename(self)[1])
    ELSE to_uppercase_string_abbr(self.ident)

\* TargetVariant::outer_rename_abbr_lowercase
outer_rename_abbr_lowercase(self) ==
    IF inner_rename(self) # None THEN lowercase_then_abbr(inner_rename(self)[1])
    ELSE to_lowercase_string_abbr(self.ident)

\* TargetVariant::outer_rename_abbr
outer_rename_abbr(self, outer, outer_abbr) ==
    CASE outer_abbr = Some(Uppercase) -> outer_rename_abbr_uppercase(self)
      [] outer_abbr = Some(Lowercase) -> outer_rename_abbr_lowercase(self)
      [] outer_abbr = None -> to_abbr_in_place(as_str(self, outer))

\* A slip of as_str_abbr: the type-level abbreviation policy is not asked,
\* the primary string is cut.
as_str_abbr_of_primary(self, outer, outer_abbr) ==
    IF inner_rename_abbr(self) # None THEN inner_rename_abbr(self)[1]
    ELSE to_abbr_in_place(as_str(self, outer))

\* TargetVariant::as_str_abbr
as_str_abbr(self, outer, outer_abbr) ==
    IF inner_rename_abbr(self) # None THEN inner_rename_abbr(self)[1]
    ELSE outer_rename_abbr(self, outer, outer_abbr)

\* ------------------------------------------------------------ the inputs

\* The strings over the alphabet of at most n bytes.
RECURSIVE StringsUpTo(_)
StringsUpTo(n) ==
    IF n = 0 THEN {<<>>}
    ELSE LET shorter == StringsUpTo(n - 1)
         IN  shorter \cup {Append(s, c) : s \in shorter, c \in Alphabet}

BoundedStrings(n) == {s \in StringsUpTo(n) : len(s) <= n}

\* An identifier is not empty.
Idents == BoundedStrings(MaxIdentBytes) \ {<<>>}

\* The string literals of a `rename` attribute: every string that an
\* abbreviation leaves whole, and those one byte longer, which it cuts.
Literals == BoundedStrings(AbbrWidth + 1)

\* The string literals of a `rename_abbr` attribute: shorter than an
\* abbreviation, longer, and longer with two-byte code points.
AbbrLiterals == {<<98>>, <<98, 65, 98, 65>>, <<201, 201>>}

\* Option<InnerRenameStrategy>, as parsed from a variant's attribute
InnerRename(literals) ==
    {None, Some(Uppercase), Some(Lowercase)} \cup {Some(Literal(l)) : l \in literals}

\* Option<OuterRenameStrategy>, as parsed from the enum's attribute
OuterRename == {None} \cup {Some(strategy) : strategy \in OuterRenameStrategy}

\* ------------------------------------------------------- the state machine

VARIABLES
    variant,      \* the TargetVariant under expansion
    rename,       \* TargetEnum::rename
    rename_abbr,  \* TargetEnum::rename_abbr
    name,         \* the string of the variant's `as_str` match branch
    name_abbr,    \* the string of the variant's `as_str_abbr` match branch
    pc,           \* "parsed", "as_str", "as_str_abbr" or "panicked"; the
                  \* expansion of a whole enum has its own steps, see below
    variants,               \* TargetEnum::variants, in declaration order
    variant_count,          \* TargetEnum::variants_count
    variant_idents,         \* TargetEnum::iter_variant_idents, collected
    as_str_branches,        \* TargetEnum::iter_variant_as_str_match_branches
    as_str_abbr_branches,   \* TargetEnum::iter_variant_as_str_abbr_match_branches
    list_str,               \* TargetEnum::variants_list_string
    list_str_abbr,          \* TargetEnum::variants_list_string_abbr
    from_str_branches,      \* TargetEnum::variants_from_str_match_branches
    lookup,                 \* the last call of the generated from_str and its result
    display,                \* TargetEnum::display
    display_impl,           \* whether the expansion has a Display impl, once decided
    shown,                  \* the last call of the generated fmt and what it wrote
    meta,                   \* the Meta of a rename or rename_abbr attribute
    parsed                  \* what FromMeta made of it

\* The state of the expansion of one variant.
variant_vars == <<variant, name, name_abbr>>

\* The state of the expansion of a whole enum.
enum_vars ==
    <<variants, variant_count, variant_idents, as_str_branches, as_str_abbr_branches,
      list_str, list_str_abbr, from_str_branches, lookup>>

\* The state of the generated Display.
display_vars == <<display, display_impl, shown>>

\* The state of the parsing of one attribute.
meta_vars == <<meta, parsed>>

vars == <<variant_vars, rename, rename_abbr, pc, enum_vars, display_vars, meta_vars>>

\* No Display is asked for, none is generated.
NoDisplay ==
    /\ display = FALSE
    /\ display_impl = None
    /\ shown = None

\* No attribute is being parsed.
NoMeta ==
    /\ meta = None
    /\ parsed = None

\* Nothing of a whole enum is expanded.
NoEnum ==
    /\ variants = <<>>
    /\ variant_count = None
    /\ variant_idents = None
    /\ as_str_branches = None
    /\ as_str_abbr_branches = None
    /\ list_str = None
    /\ list_str_abbr = None
    /\ from_str_branches = None
    /\ lookup = None

\* FromDeriveInput / FromVariant: the attributes are parsed, nothing expanded.
Init ==
    /\ \E r \in InnerRename(Literals), ra \in InnerRename(AbbrLiterals), ident \in Idents :
          variant = [ident |-> ident, rename |-> r, rename_abbr |-> ra, skip |-> FALSE]
    /\ rename \in OuterRename
    /\ rename_abbr \in OuterRename
    /\ name = None
    /\ name_abbr = None
    /\ pc = "parsed"
    /\ NoEnum
    /\ NoDisplay
    /\ NoMeta

\* TargetVariant::as_str_match_branch
as_str_match_branch ==
    /\ pc = "parsed"
    /\ name' = Some(as_str(variant, rename))
    /\ pc' = "as_str"
    /\ UNCHANGED <<variant, rename, rename_abbr, name_abbr, enum_vars, display_vars, meta_vars>>

\* TargetVariant::as_str_abbr_match_branch
as_str_abbr_match_branch ==
    /\ pc = "as_str"
    /\ LET abbr == as_str_abbr(variant, rename, rename_abbr)
       IN  IF abbr = Panic
           THEN pc' = "panicked" /\ name_abbr' = None
           ELSE pc' = "as_str_abbr" /\ name_abbr' = Some(abbr)
    /\ UNCHANGED <<variant, rename, rename_abbr, name, enum_vars, display_vars, meta_vars>>

Next == as_str_match_branch \/ as_str_abbr_match_branch

Spec == Init /\ [][Next]_vars

\* ------------------------------------------------- vocabulary of the claims

\* char::encode_utf8, for the code points of at most three bytes
encode_utf8(c) ==
    IF c < 128 THEN <<c>>
    ELSE IF c < 2048 THEN <<192 + (c \div 64), 128 + (c % 64)>>
    ELSE <<224 + (c \div 4096), 128 + ((c \div 64) % 64), 128 + (c % 64)>>

\* str::as_bytes
RECURSIVE as_bytes(_)
as_bytes(s) == IF s = <<>> THEN <<>> ELSE encode_utf8(Head(s)) \o as_bytes(Tail(s))

\* The first n bytes of a byte string, all of it when it is shorter.
FirstBytes(bytes, n) == SubSeq(bytes, 1, IF Len(bytes) < n THEN Len(bytes) ELSE n)

\* as_str has run for the variant.
PrimaryResolved == pc # "parsed"

\* as_str_abbr has run for the variant, to its end or to a panic.
AbbrResolved == pc \in {"as_str_abbr", "panicked"}

\* What as_str_abbr came to: the string, or Panic.
AbbrOutcome == IF pc = "panicked" THEN Panic ELSE name_abbr[1]

IsLiteral(strategy) == strategy # None /\ strategy[1].tag = "Literal"

\* The value-level primary base as the specification words it: the literal,
\* the ASCII-cased identifier, or the raw identifier; never the type level.
ValueLevelBase(self) ==
    IF IsLiteral(self.rename) THEN self.rename[1].literal
    ELSE IF self.rename = Some(Uppercase) THEN make_ascii_uppercase(self.ident)
    ELSE IF self.rename = Some(Lowercase) THEN make_ascii_lowercase(self.ident)
    ELSE self.ident

\* ASCII case as a policy asks for it.
Cased(strategy, s) ==
    IF strategy = Some(Uppercase) THEN make_ascii_uppercase(s)
    ELSE IF strategy = Some(Lowercase) THEN make_ascii_lowercase(s)
    ELSE s

\* ------------------------------------------------------------------ claims

\* C1: the primary name is the first match of the cascade: a value-level
\* literal verbatim, else the value-level ASCII case of the identifier, else
\* the type-level ASCII case of the identifier, else the identifier.
C1_PrimaryCascade ==
    PrimaryResolved =>
        name = Some(IF variant.rename # None
                    THEN ValueLevelBase(variant)
                    ELSE Cased(rename, variant.ident))

\* C2: with a value-level primary policy the primary name is the same under
\* each of the three type-level primary policies.
C2_ValueLevelPrecedence ==
    (PrimaryResolved /\ variant.rename # None) =>
        \A outer \in OuterRename : Some(as_str(variant, outer)) = name

C2_Witness ==
    /\ pc = "as_str"
    /\ variant.ident = <<65, 98>>
    /\ variant.rename = Some(Lowercase)
    /\ rename = Some(Uppercase)
    /\ name = Some(<<97, 98>>)

\* C3: under a value-level abbreviation policy Uppercase or Lowercase the
\* abbreviated name is the first 3 bytes of the ASCII-cased value-level
\* primary base.
C3_ValueLevelAbbrCase ==
    (AbbrResolved /\ variant.rename_abbr \in {Some(Uppercase), Some(Lowercase)}) =>
        /\ name_abbr # None
        /\ as_bytes(name_abbr[1]) =
              FirstBytes(as_bytes(Cased(variant.rename_abbr, ValueLevelBase(variant))),
                         AbbrWidth)

\* C4: with no value-level abbreviation policy, a type-level abbreviation
\* policy gives what the same policy at the value level gives, whatever the
\* type-level primary policy.
C4_TypeLevelAbbrAsValueLevel ==
    (AbbrResolved /\ variant.rename_abbr = None /\ rename_abbr # None) =>
        \A outer \in OuterRename :
            AbbrOutcome =
                as_str_abbr([variant EXCEPT !.rename_abbr = rename_abbr], outer, None)

C4_Witness ==
    /\ pc = "as_str_abbr"
    /\ variant.ident = <<65, 98, 65, 98>>
    /\ variant.rename = None
    /\ variant.rename_abbr = None
    /\ rename = Some(Uppercase)
    /\ rename_abbr = Some(Lowercase)
    /\ name = Some(<<65, 66, 65, 66>>)
    /\ name_abbr = Some(<<97, 98, 97>>)

\* C5: with no abbreviation policy at either level the abbreviated name is
\* the first 3 bytes of the resolved primary name, case unchanged.
C5_AbbrOfResolvedPrimary ==
    (AbbrResolved /\ variant.rename_abbr = None /\ rename_abbr = None) =>
        /\ name_abbr # None
        /\ as_bytes(name_abbr[1]) = FirstBytes(as_bytes(name[1]), AbbrWidth)

\* C6: a value-level literal abbreviation is the abbreviated name, byte for
\* byte, under every other policy.
C6_LiteralAbbrVerbatim ==
    (AbbrResolved /\ IsLiteral(variant.rename_abbr)) =>
        /\ pc = "as_str_abbr"
        /\ name_abbr = Some(variant.rename_abbr[1].literal)

C6_Witness ==
    /\ pc = "as_str_abbr"
    /\ variant.rename = Some(Uppercase)
    /\ rename = Some(Lowercase)
    /\ rename_abbr = Some(Uppercase)
    /\ variant.rename_abbr = Some(Literal(<<98, 65, 98, 65>>))
    /\ name_abbr = Some(<<98, 65, 98, 65>>)

\* C7: an abbreviated name that is not a value-level literal abbreviation
\* has at most 3 bytes.
C7_AbbrAtMostThreeBytes ==
    (name_abbr # None /\ ~IsLiteral(variant.rename_abbr)) =>
        len(name_abbr[1]) <= AbbrWidth

C7_Witness ==
    /\ pc = "as_str_abbr"
    /\ ~IsLiteral(variant.rename_abbr)
    /\ len(name[1]) > AbbrWidth
    /\ len(name_abbr[1]) = AbbrWidth

\* C8: truncation keeps exactly the first 3 bytes of its base, and leaves a
\* base of at most 3 bytes as it is; seen where the base is the resolved
\* primary name (no abbreviation policy at either level).
C8_TruncationFirstThreeBytes ==
    (AbbrResolved /\ variant.rename_abbr = None /\ rename_abbr = None) =>
        /\ len(name[1]) <= AbbrWidth => name_abbr = name
        /\ len(name[1]) > AbbrWidth =>
              /\ name_abbr # None
              /\ Len(as_bytes(name_abbr[1])) = AbbrWidth
              /\ as_bytes(name_abbr[1]) = SubSeq(as_bytes(name[1]), 1, AbbrWidth)

\* C9: where the 3-byte cut falls inside a multi-byte character of the base,
\* the abbreviated name is still the first 3 bytes and nothing fails.
C9_CutInsideCharacter ==
    (/\ AbbrResolved
     /\ variant.rename_abbr = None
     /\ rename_abbr = None
     /\ len(name[1]) > AbbrWidth
     /\ ~is_char_boundary(name[1], AbbrWidth)) =>
        /\ pc # "panicked"
        /\ name_abbr # None
        /\ as_bytes(name_abbr[1]) = SubSeq(as_bytes(name[1]), 1, AbbrWidth)

\* C10: resolution never panics.
C10_NeverPanics == pc # "panicked"

\* Only ASCII letters differ between the input and the output of a case
\* transform: the same code points elsewhere, the same length in bytes.
OnlyAsciiLettersChanged(input, output) ==
    /\ Len(output) = Len(input)
    /\ len(output) = len(input)
    /\ \A i \in 1..Len(input) :
          output[i] # input[i] =>
              /\ input[i] < 128
              /\ to_ascii_lowercase(output[i]) = to_ascii_lowercase(input[i])

\* C11: a case transform of resolution changes ASCII letters only: on the
\* primary path the identifier, on the abbreviated path the abbreviated
\* identifier or literal.
C11_CaseTransformsAsciiOnly ==
    /\ (PrimaryResolved /\ ~IsLiteral(variant.rename)
            /\ (variant.rename # None \/ rename # None)) =>
          OnlyAsciiLettersChanged(variant.ident, name[1])
    /\ (name_abbr # None /\ ~IsLiteral(variant.rename_abbr)
            /\ (variant.rename_abbr # None \/ rename_abbr # None)) =>
          LET base == IF IsLiteral(variant.rename) THEN variant.rename[1].literal
                      ELSE variant.ident
          IN  OnlyAsciiLettersChanged(to_abbr_in_place(base), name_abbr[1])

----------------------------------------------------------------------------
\* TargetEnum: the builders over the variants of a whole enum.  `self` is
\* [variants, rename, rename_abbr].

\* Every variant iterable, whatever its skip.
is_iterable_always(self) == self.skip \in BOOLEAN

\* TargetVariant::is_iterable.
is_iterable(self) == ~self.skip

\* TargetVariant::ident: the identifier of an iterable variant.
ident(self) == IF is_iterable(self) THEN Some(self.ident) ELSE None

\* TargetVariant::as_quoted_string: format!("\"{}\"", as_str).
as_quoted_string(self, outer) == <<34>> \o as_str(self, outer) \o <<34>>

\* TargetVariant::as_quoted_string_abbr.
as_quoted_string_abbr(self, outer, outer_abbr) ==
    LET abbr == as_str_abbr(self, outer, outer_abbr)
    IN  IF abbr = Panic THEN Panic ELSE <<34>> \o abbr \o <<34>>

\* The branch of the two strings in lowercase.
from_str_match_branch_folded(self, outer, outer_abbr) ==
    [name      |-> make_ascii_lowercase(as_str(self, outer)),
     name_abbr |-> make_ascii_lowercase(as_str_abbr(self, outer, outer_abbr)),
     ident     |-> self.ident]

\* The branch of the primary string alone.
from_str_match_branch_primary(self, outer, outer_abbr) ==
    [name      |-> as_str(self, outer),
     name_abbr |-> as_str(self, outer),
     ident     |-> self.ident]

\* The branch of the value-level policies alone, the type-level ones dropped.
from_str_match_branch_inner(self, outer, outer_abbr) ==
    [name      |-> as_str(self, None),
     name_abbr |-> as_str_abbr(self, None, None),
     ident     |-> self.ident]

\* TargetVariant::from_str_match_branch: #name | #name_abbr => Ok(Self::#ident).
\* Only called where as_str_abbr returns.
from_str_match_branch(self, outer, outer_abbr) ==
    [name      |-> as_str(self, outer),
     name_abbr |-> as_str_abbr(self, outer, outer_abbr),
     ident     |-> self.ident]

\* Iterator::filter_map, given the results of its closure: the values of
\* those that are Some, in order.
RECURSIVE filter_map(_)
filter_map(options) ==
    IF options = <<>> THEN <<>> ELSE Head(options) \o filter_map(Tail(options))

\* The separator after every item, the last one too.
RECURSIVE intersperse_trailing(_, _)
intersperse_trailing(s, separator) ==
    IF s = <<>> THEN <<>>
    ELSE <<Head(s), separator>> \o intersperse_trailing(Tail(s), separator)

\* Itertools::intersperse: the separator between every two items.
RECURSIVE intersperse(_, _)
intersperse(s, separator) ==
    IF Len(s) <= 1 THEN s
    ELSE <<Head(s), separator>> \o intersperse(Tail(s), separator)

\* collect::<String>() of an iterator of strings.
RECURSIVE collect(_)
collect(s) == IF s = <<>> THEN <<>> ELSE Head(s) \o collect(Tail(s))

\* The separator of a listing, ", ".
Separator == <<44, 32>>

iter_variants(self) == self.variants

\* A filter that keeps the skipped variants too.
iter_iterable_variants_all(self) == iter_variants(self)

iter_iterable_variants(self) == SelectSeq(iter_variants(self), is_iterable)

\* A count of every variant, skipped or not.
variants_count_all(self) == Len(iter_variants(self))

variants_count(self) == Len(iter_iterable_variants(self))

\* The identifiers from the last declared to the first.
iter_variant_idents_rev(self) ==
    LET iterable == iter_iterable_variants(self)
        idents   == filter_map([i \in 1..Len(iterable) |-> ident(iterable[i])])
    IN  [i \in 1..Len(idents) |-> idents[Len(idents) + 1 - i]]

iter_variant_idents(self) ==
    LET iterable == iter_iterable_variants(self)
    IN  filter_map([i \in 1..Len(iterable) |-> ident(iterable[i])])

\* Some variant of s has no abbreviation: as_str_abbr panics on it.
abbr_panics(self, s) ==
    \E i \in 1..Len(s) : as_str_abbr(s[i], self.rename, self.rename_abbr) = Panic

\* The value-level rename of the first variant read for every variant.
iter_variant_as_str_match_branches_first(self) ==
    LET all == iter_variants(self)
    IN  [i \in 1..Len(all) |->
            [ident |-> all[i].ident,
             name |-> as_str([all[i] EXCEPT !.rename = all[1].rename], self.rename)]]

iter_variant_as_str_match_branches(self) ==
    LET all == iter_variants(self)
    IN  [i \in 1..Len(all) |->
            [ident |-> all[i].ident, name |-> as_str(all[i], self.rename)]]

\* The abbreviated branches of the iterable variants alone.
iter_variant_as_str_abbr_match_branches_iterable(self) ==
    LET iterable == iter_iterable_variants(self)
    IN  [i \in 1..Len(iterable) |->
            [ident |-> iterable[i].ident,
             name_abbr |-> as_str_abbr(iterable[i], self.rename, self.rename_abbr)]]

iter_variant_as_str_abbr_match_branches(self) ==
    LET all == iter_variants(self)
    IN  IF abbr_panics(self, all) THEN Panic
        ELSE [i \in 1..Len(all) |->
                [ident |-> all[i].ident,
                 name_abbr |-> as_str_abbr(all[i], self.rename, self.rename_abbr)]]

\* The listing of every variant, skipped or not.
variants_list_string_all(self) ==
    LET all == iter_variants(self)
    IN  collect(intersperse(
            [i \in 1..Len(all) |-> as_quoted_string(all[i], self.rename)],
            Separator))

variants_list_string(self) ==
    LET iterable == iter_iterable_variants(self)
    IN  collect(intersperse(
            [i \in 1..Len(iterable) |-> as_quoted_string(iterable[i], self.rename)],
            Separator))

variants_list_string_abbr(self) ==
    LET iterable == iter_iterable_variants(self)
    IN  IF abbr_panics(self, iterable) THEN Panic
        ELSE collect(intersperse(
                [i \in 1..Len(iterable) |->
                    as_quoted_string_abbr(iterable[i], self.rename, self.rename_abbr)],
                Separator))

\* A branch for every variant, skipped or not.
variants_from_str_match_branches_all(self) ==
    LET all == iter_variants(self)
    IN  [i \in 1..Len(all) |->
            from_str_match_branch(all[i], self.rename, self.rename_abbr)]

\* The branches from the last declared variant to the first.
variants_from_str_match_branches_rev(self) ==
    LET iterable == iter_iterable_variants(self)
    IN  IF abbr_panics(self, iterable) THEN Panic
        ELSE [i \in 1..Len(iterable) |->
                from_str_match_branch(iterable[Len(iterable) + 1 - i],
                                      self.rename, self.rename_abbr)]

variants_from_str_match_branches(self) ==
    LET iterable == iter_iterable_variants(self)
    IN  IF abbr_panics(self, iterable) THEN Panic
        ELSE [i \in 1..Len(iterable) |->
                from_str_match_branch(iterable[i], self.rename, self.rename_abbr)]

----------------------------------------------------------------------------
\* The generated FromStr: match s { #(#branches,)* _ => Err(..) }, the
\* first branch one of whose two patterns is the input, byte for byte.

Ok(symbol) == [tag |-> "Ok", ident |-> symbol]

NotFound == [tag |-> "NotFound", ident |-> <<>>]

from_str(branches, s) ==
    LET matching == {i \in 1..Len(branches) :
                        branches[i].name = s \/ branches[i].name_abbr = s}
    IN  IF matching = {} THEN NotFound
        ELSE Ok(branches[CHOOSE i \in matching : \A j \in matching : i <= j].ident)

----------------------------------------------------------------------------
\* The expansion of a whole enum: the enums of the input.

MaxVariants == 2

\* Abb and Abbb share an abbreviation; Abb and ABB differ in case only.
EnumIdents == {<<65, 98, 98>>, <<65, 98, 98, 98>>, <<65, 66, 66>>}

\* No value-level rename, or the literal "ÉÉ".
EnumRename == {None, Some(Literal(<<201, 201>>))}

\* No value-level abbreviation, or the literal "Ab".
EnumRenameAbbr == {None, Some(Literal(<<65, 98>>))}

EnumVariants ==
    [ident : EnumIdents, rename : EnumRename, rename_abbr : EnumRenameAbbr,
     skip : BOOLEAN]

\* The variants of an enum have distinct identifiers.
EnumData ==
    UNION {{s \in [1..n -> EnumVariants] :
               \A i, j \in 1..n : s[i].ident = s[j].ident => i = j} :
           n \in 0..MaxVariants}

\* Strings from_str is called with, next to the keys of its branches.
Inputs ==
    {<<65, 98, 98>>, <<97, 98, 98>>, <<65, 66, 66>>, <<65, 98>>,
     <<65, 98, 98, 98>>, <<201, 201>>}

\* The enum the macro is derived on.
target_enum ==
    [variants |-> variants, rename |-> rename, rename_abbr |-> rename_abbr,
     display |-> display]

\* The enum is parsed, nothing of it is expanded.
ParsedEnum ==
    /\ variants \in EnumData
    /\ rename \in OuterRename
    /\ rename_abbr \in OuterRename
    /\ variant = None
    /\ name = None
    /\ name_abbr = None
    /\ pc = "enum"
    /\ variant_count = None
    /\ variant_idents = None
    /\ as_str_branches = None
    /\ as_str_abbr_branches = None
    /\ list_str = None
    /\ list_str_abbr = None
    /\ from_str_branches = None
    /\ lookup = None
    /\ NoMeta

InitEnum == ParsedEnum /\ NoDisplay

\* The patterns of the branches of from_str.
Keys(branches) ==
    {branches[i].name : i \in 1..Len(branches)}
        \cup {branches[i].name_abbr : i \in 1..Len(branches)}

\* The builders that resolve no abbreviation run in the order of the
\* expansion; the three that resolve abbreviations run in any order, and
\* each panics where as_str_abbr panics on one of its variants.

VariantsCount ==
    /\ pc = "enum"
    /\ variant_count' = Some(variants_count(target_enum))
    /\ pc' = "variant_count"
    /\ UNCHANGED <<variant_vars, rename, rename_abbr, variants, variant_idents,
                   as_str_branches, as_str_abbr_branches, list_str, list_str_abbr,
                   from_str_branches, lookup, display_vars, meta_vars>>

IterVariantIdents ==
    /\ pc = "variant_count"
    /\ variant_idents' = Some(iter_variant_idents(target_enum))
    /\ pc' = "variant_idents"
    /\ UNCHANGED <<variant_vars, rename, rename_abbr, variants, variant_count,
                   as_str_branches, as_str_abbr_branches, list_str, list_str_abbr,
                   from_str_branches, lookup, display_vars, meta_vars>>

IterVariantAsStrMatchBranches ==
    /\ pc = "variant_idents"
    /\ as_str_branches' = Some(iter_variant_as_str_match_branches(target_enum))
    /\ pc' = "as_str_branches"
    /\ UNCHANGED <<variant_vars, rename, rename_abbr, variants, variant_count,
                   variant_idents, as_str_abbr_branches, list_str, list_str_abbr,
                   from_str_branches, lookup, display_vars, meta_vars>>

VariantsListString ==
    /\ pc = "as_str_branches"
    /\ list_str' = Some(variants_list_string(target_enum))
    /\ pc' = "list_str"
    /\ UNCHANGED <<variant_vars, rename, rename_abbr, variants, variant_count,
                   variant_idents, as_str_branches, as_str_abbr_branches,
                   list_str_abbr, from_str_branches, lookup, display_vars, meta_vars>>

IterVariantAsStrAbbrMatchBranches ==
    /\ pc = "list_str"
    /\ as_str_abbr_branches = None
    /\ IF abbr_panics(target_enum, iter_variants(target_enum))
       THEN pc' = "panicked" /\ UNCHANGED as_str_abbr_branches
       ELSE /\ as_str_abbr_branches' =
                  Some(iter_variant_as_str_abbr_match_branches(target_enum))
            /\ UNCHANGED pc
    /\ UNCHANGED <<variant_vars, rename, rename_abbr, variants, variant_count,
                   variant_idents, as_str_branches, list_str, list_str_abbr,
                   from_str_branches, lookup, display_vars, meta_vars>>

VariantsListStringAbbr ==
    /\ pc = "list_str"
    /\ list_str_abbr = None
    /\ IF abbr_panics(target_enum, iter_iterable_variants(target_enum))
       THEN pc' = "panicked" /\ UNCHANGED list_str_abbr
       ELSE /\ list_str_abbr' = Some(variants_list_string_abbr(target_enum))
            /\ UNCHANGED pc
    /\ UNCHANGED <<variant_vars, rename, rename_abbr, variants, variant_count,
                   variant_idents, as_str_branches, as_str_abbr_branches, list_str,
                   from_str_branches, lookup, display_vars, meta_vars>>

VariantsFromStrMatchBranches ==
    /\ pc = "list_str"
    /\ from_str_branches = None
    /\ IF abbr_panics(target_enum, iter_iterable_variants(target_enum))
       THEN pc' = "panicked" /\ UNCHANGED from_str_branches
       ELSE /\ from_str_branches' = Some(variants_from_str_match_branches(target_enum))
            /\ UNCHANGED pc
    /\ UNCHANGED <<variant_vars, rename, rename_abbr, variants, variant_count,
                   variant_idents, as_str_branches, as_str_abbr_branches, list_str,
                   list_str_abbr, lookup, display_vars, meta_vars>>

\* The expansion is complete: every builder has returned.
Expanded ==
    /\ pc = "list_str"
    /\ as_str_abbr_branches # None
    /\ list_str_abbr # None
    /\ from_str_branches # None

\* A call of the generated from_str, on the expanded enum.
FromStr ==
    /\ Expanded
    /\ \E s \in Inputs \cup Keys(from_str_branches[1]) :
          lookup' = Some([input |-> s, result |-> from_str(from_str_branches[1], s)])
    /\ UNCHANGED <<variant_vars, rename, rename_abbr, pc, variants, variant_count,
                   variant_idents, as_str_branches, as_str_abbr_branches, list_str,
                   list_str_abbr, from_str_branches, display_vars, meta_vars>>

NextEnum ==
    \/ VariantsCount
    \/ IterVariantIdents
    \/ IterVariantAsStrMatchBranches
    \/ VariantsListString
    \/ IterVariantAsStrAbbrMatchBranches
    \/ VariantsListStringAbbr
    \/ VariantsFromStrMatchBranches
    \/ FromStr

SpecEnum == InitEnum /\ [][NextEnum]_vars

----------------------------------------------------------------------------
\* The vocabulary of the claims about a whole enum.

\* The declaration indices of the variants that are not skipped.
NonSkipped == {i \in 1..Len(variants) : ~variants[i].skip}

\* The position among the non-skipped variants of the variant declared i-th.
Rank(i) == Cardinality({j \in NonSkipped : j <= i})

\* The resolved strings of the variant declared i-th.
ResolvedPrimary(i) == as_str(variants[i], rename)
ResolvedAbbr(i) == as_str_abbr(variants[i], rename, rename_abbr)

\* An item that is no string: the listing is not a list of quoted strings.
Malformed == <<-2>>

\* The items of a listing: the strings between two double quotes, one
\* separator between every two of them and nothing else.
RECURSIVE quoted_items(_)
quoted_items(s) ==
    IF s = <<>> THEN <<>>
    ELSE LET closing == {j \in 2..Len(s) : s[j] = 34}
         IN  IF Head(s) # 34 \/ closing = {} THEN <<Malformed>>
             ELSE LET j    == CHOOSE k \in closing : \A l \in closing : k <= l
                      item == SubSeq(s, 2, j - 1)
                      rest == SubSeq(s, j + 1, Len(s))
                  IN  IF rest = <<>> THEN <<item>>
                      ELSE IF Len(rest) > 2 /\ SubSeq(rest, 1, 2) = Separator
                      THEN <<item>> \o quoted_items(SubSeq(rest, 3, Len(rest)))
                      ELSE <<item, Malformed>>

\* The items of a built listing are the given strings of the non-skipped
\* variants, each at its rank, and no other item.
ListsNonSkipped(listing, resolved(_)) ==
    LET items == quoted_items(listing)
    IN  /\ Len(items) = Cardinality(NonSkipped)
        /\ \A i \in NonSkipped : items[Rank(i)] = resolved(i)

\* C12: a skipped variant is in none of the iteration order, the two
\* listings and the from_str branches; a variant that is not skipped is in
\* every one of them that is built.
C12_SkipExclusion ==
    /\ variant_idents # None =>
          \A i \in 1..Len(variants) :
              (\E k \in 1..Len(variant_idents[1]) :
                    variant_idents[1][k] = variants[i].ident) <=> ~variants[i].skip
    /\ from_str_branches # None =>
          \A i \in 1..Len(variants) :
              (\E k \in 1..Len(from_str_branches[1]) :
                    from_str_branches[1][k].ident = variants[i].ident)
                  <=> ~variants[i].skip
    /\ list_str # None => ListsNonSkipped(list_str[1], ResolvedPrimary)
    /\ list_str_abbr # None => ListsNonSkipped(list_str_abbr[1], ResolvedAbbr)

\* An expanded enum with a skipped variant and one that is not.
C12_Witness ==
    /\ Expanded
    /\ \E i, j \in 1..Len(variants) : variants[i].skip /\ ~variants[j].skip

\* C13: the iteration order is the identifiers of the non-skipped variants
\* in declaration order: as many as there are, each at its rank.
C13_IterationOrder ==
    variant_idents # None =>
        /\ Len(variant_idents[1]) = Cardinality(NonSkipped)
        /\ \A i \in NonSkipped : variant_idents[1][Rank(i)] = variants[i].ident

\* Two variants are iterated, in an enum of at least two.
C13_Witness ==
    /\ variant_idents # None
    /\ Len(variant_idents[1]) = 2
    /\ variant_idents[1][1] # variant_idents[1][2]

\* C14: the iterable count is the number of variants that are not skipped,
\* and the length of the iteration order.
C14_IterableCount ==
    /\ variant_count # None => variant_count[1] = Cardinality(NonSkipped)
    /\ (variant_count # None /\ variant_idents # None) =>
          Len(variant_idents[1]) = variant_count[1]

\* The count of an enum with a skipped variant and one that is not.
C14_Witness ==
    /\ variant_idents # None
    /\ variant_count = Some(1)
    /\ Len(variants) = 2

\* The variant at position k of the non-skipped ones.
Iterated(k) == CHOOSE i \in NonSkipped : Rank(i) = k

\* The first n of the given strings of the non-skipped variants, each in one
\* pair of double quotes, ", " before each but the first.
RECURSIVE Joined(_, _)
Joined(resolved(_), n) ==
    IF n = 0 THEN <<>>
    ELSE Joined(resolved, n - 1)
            \o (IF n = 1 THEN <<>> ELSE <<44, 32>>)
            \o <<34>> \o resolved(Iterated(n)) \o <<34>>

\* C15: a listing is the resolved strings of the iteration order, each in
\* double quotes, joined by ", ", with no separator before or after.
C15_ListingFormat ==
    /\ list_str # None =>
          list_str[1] = Joined(ResolvedPrimary, Cardinality(NonSkipped))
    /\ list_str_abbr # None =>
          list_str_abbr[1] = Joined(ResolvedAbbr, Cardinality(NonSkipped))

\* Both listings of two variants: "Abb", "Abbb" and "Abb", "Abb".
C15_Witness ==
    /\ list_str = Some(<<34, 65, 98, 98, 34, 44, 32, 34, 65, 98, 98, 98, 34>>)
    /\ list_str_abbr = Some(<<34, 65, 98, 98, 34, 44, 32, 34, 65, 98, 98, 34>>)

\* C16: in an enum with no variant, or with every variant skipped, the
\* iteration order is empty, the count is 0, both listings are the empty
\* string, from_str has no branch and finds nothing.
C16_EmptyTable ==
    NonSkipped = {} =>
        /\ variant_count # None => variant_count = Some(0)
        /\ variant_idents # None => variant_idents = Some(<<>>)
        /\ list_str # None => list_str = Some(<<>>)
        /\ list_str_abbr # None => list_str_abbr = Some(<<>>)
        /\ from_str_branches # None => from_str_branches = Some(<<>>)
        /\ lookup # None => lookup[1].result = NotFound

\* from_str was called on an expanded enum whose two variants are skipped.
C16_Witness ==
    /\ Len(variants) = 2
    /\ NonSkipped = {}
    /\ Expanded
    /\ lookup # None

\* C17: from_str has one branch for each non-skipped variant, in
\* declaration order, and no other: its two keys are the primary and the
\* abbreviated string of that variant, those of the as_str and as_str_abbr
\* branches, and it returns that variant.
C17_ReverseMapEntries ==
    from_str_branches # None =>
        /\ Len(from_str_branches[1]) = Cardinality(NonSkipped)
        /\ \A i \in NonSkipped :
              LET branch == from_str_branches[1][Rank(i)]
              IN  /\ branch.ident = variants[i].ident
                  /\ branch.name = ResolvedPrimary(i)
                  /\ branch.name_abbr = ResolvedAbbr(i)
                  /\ as_str_branches[1][i] =
                        [ident |-> branch.ident, name |-> branch.name]
                  /\ as_str_abbr_branches # None =>
                        as_str_abbr_branches[1][i] =
                            [ident |-> branch.ident, name_abbr |-> branch.name_abbr]

\* The branches of two variants under type-level policies, next to the
\* as_str_abbr branches of the enum.
C17_Witness ==
    /\ from_str_branches # None
    /\ Len(from_str_branches[1]) = 2
    /\ as_str_abbr_branches # None
    /\ rename = Some(Uppercase)
    /\ rename_abbr = Some(Lowercase)

\* The variant declared i-th has the key: its primary or abbreviated string.
HasKey(i, key) == key = ResolvedPrimary(i) \/ key = ResolvedAbbr(i)

\* C18: from_str of the primary or of the abbreviated string of a
\* non-skipped variant returns that variant, where no non-skipped variant
\* declared before it has that string as a key.
C18_RoundTrip ==
    lookup # None =>
        \A i \in NonSkipped :
            (/\ HasKey(i, lookup[1].input)
             /\ \A j \in NonSkipped : j < i => ~HasKey(j, lookup[1].input))
                => lookup[1].result = Ok(variants[i].ident)

\* from_str has returned the second of two variants from its abbreviation,
\* which is not its primary string.
C18_Witness ==
    /\ lookup # None
    /\ Cardinality(NonSkipped) = 2
    /\ lookup[1].input = ResolvedAbbr(2)
    /\ lookup[1].input # ResolvedPrimary(2)
    /\ lookup[1].result = Ok(variants[2].ident)

\* C19: where two non-skipped variants have an equal key, the branches are
\* built all the same and hold a branch for each of the two; from_str of
\* that key returns a variant declared no later than the earlier of the two
\* that has the key, never the later one.
C19_CollisionPolicy ==
    /\ pc = "panicked" => abbr_panics(target_enum, iter_variants(target_enum))
    /\ from_str_branches # None =>
          \A i \in NonSkipped : \A j \in {x \in NonSkipped : i < x} :
              \A key \in {ResolvedPrimary(i), ResolvedAbbr(i)} :
                  HasKey(j, key) =>
                      /\ from_str_branches[1][Rank(i)].ident = variants[i].ident
                      /\ from_str_branches[1][Rank(j)].ident = variants[j].ident
                      /\ (lookup # None /\ lookup[1].input = key) =>
                            /\ lookup[1].result # Ok(variants[j].ident)
                            /\ \E k \in NonSkipped :
                                  /\ k <= i
                                  /\ HasKey(k, key)
                                  /\ lookup[1].result = Ok(variants[k].ident)

\* from_str of "Abb", the primary string of the first variant and the
\* abbreviation of the second only, has returned the first.
C19_Witness ==
    /\ lookup # None
    /\ NonSkipped = {1, 2}
    /\ lookup[1].input = <<65, 98, 98>>
    /\ HasKey(1, lookup[1].input)
    /\ ResolvedAbbr(2) = lookup[1].input
    /\ ResolvedPrimary(2) # lookup[1].input
    /\ lookup[1].result = Ok(variants[1].ident)

\* C20: from_str of a string that is, byte for byte, neither the primary
\* nor the abbreviated string of a non-skipped variant is NotFound, also
\* where the string differs from one of them in case only.
C20_LookupExact ==
    lookup # None =>
        ((\A i \in NonSkipped :
              /\ as_bytes(lookup[1].input) # as_bytes(ResolvedPrimary(i))
              /\ as_bytes(lookup[1].input) # as_bytes(ResolvedAbbr(i)))
            => lookup[1].result = NotFound)

\* from_str has not found "abb", the lowercase of the primary string "Abb"
\* of a non-skipped variant.
C20_Witness ==
    /\ lookup # None
    /\ lookup[1].input = <<97, 98, 98>>
    /\ lookup[1].result = NotFound
    /\ \E i \in NonSkipped : ResolvedPrimary(i) = <<65, 98, 98>>

\* The enum of the variant declared i-th alone, not skipped, under the same
\* type-level policies.
Alone(i) ==
    [variants |-> <<[variants[i] EXCEPT !.skip = FALSE]>>,
     rename |-> rename, rename_abbr |-> rename_abbr, display |-> display]

\* C21: the primary and the abbreviated string of a variant are those it
\* has in the enum of that variant alone: they depend on its identifier,
\* its two value-level policies and the two type-level policies, not on the
\* other variants, their order or the skips.
C21_PerVariantIndependence ==
    /\ as_str_branches # None =>
          \A i \in 1..Len(variants) :
              as_str_branches[1][i] = iter_variant_as_str_match_branches(Alone(i))[1]
    /\ as_str_abbr_branches # None =>
          \A i \in 1..Len(variants) :
              as_str_abbr_branches[1][i] =
                  iter_variant_as_str_abbr_match_branches(Alone(i))[1]

\* Both branches are built for two variants that differ in their
\* value-level rename, the second one skipped.
C21_Witness ==
    /\ as_str_abbr_branches # None
    /\ Len(variants) = 2
    /\ variants[1].rename # variants[2].rename
    /\ variants[2].skip

\* Every code point of the string is ASCII.
is_ascii(s) == \A i \in 1..Len(s) : s[i] < 128

\* The case policy in force on the primary path of the variant.
PrimaryCasePolicy ==
    IF variant.rename # None THEN variant.rename ELSE rename

\* C22: on ASCII strings a case transform applied twice is the transform
\* applied once: the uppercase (lowercase) of an identifier is left as it is
\* by the uppercase (lowercase) of identifiers and of literals, and an
\* identifier already in that case is returned unchanged.
C22_CaseIdempotent ==
    (PrimaryResolved /\ is_ascii(variant.ident)) =>
        /\ PrimaryCasePolicy = Some(Uppercase) =>
              /\ to_uppercase_string(name[1]) = name[1]
              /\ to_uppercase_in_place(name[1]) = name[1]
              /\ variant.ident = make_ascii_uppercase(variant.ident) =>
                    name[1] = variant.ident
        /\ PrimaryCasePolicy = Some(Lowercase) =>
              /\ to_lowercase_string(name[1]) = name[1]
              /\ to_lowercase_in_place(name[1]) = name[1]
              /\ variant.ident = make_ascii_lowercase(variant.ident) =>
                    name[1] = variant.ident

\* The identifier AbA was uppercased by the type-level policy.
C22_Witness ==
    /\ pc = "as_str"
    /\ variant.ident = <<65, 98, 65>>
    /\ variant.rename = None
    /\ rename = Some(Uppercase)
    /\ name = Some(<<65, 66, 65>>)

----------------------------------------------------------------------------
\* The generated methods and the generated Display (lib.rs).

\* The generated as_str: match self { #(#variant_as_str_match_branches,)* }.
generated_as_str(branches, symbol) ==
    branches[CHOOSE i \in 1..Len(branches) : branches[i].ident = symbol].name

\* The generated as_str_abbr.
generated_as_str_abbr(branches, symbol) ==
    branches[CHOOSE i \in 1..Len(branches) : branches[i].ident = symbol].name_abbr

\* The generated iter_variants_as_str: iter_variants().map(Self::as_str),
\* over ITERABLE_VARIANTS.
generated_iter_variants_as_str(iterable_variants, branches) ==
    [k \in 1..Len(iterable_variants) |-> generated_as_str(branches, iterable_variants[k])]

\* The generated iter_variants_as_str_abbr.
generated_iter_variants_as_str_abbr(iterable_variants, branches) ==
    [k \in 1..Len(iterable_variants) |->
        generated_as_str_abbr(branches, iterable_variants[k])]

\* The generated methods of the expanded enum.
generated ==
    [as_str |-> as_str_branches[1], as_str_abbr |-> as_str_abbr_branches[1]]

\* A Display that writes the abbreviated string.
fmt_abbr(self, symbol) == generated_as_str_abbr(self.as_str_abbr, symbol)

\* The generated fmt: f.write_str(self.as_str()).
fmt(self, symbol) == generated_as_str(self.as_str, symbol)

InitDisplay ==
    /\ ParsedEnum
    /\ display \in BOOLEAN
    /\ display_impl = None
    /\ shown = None

\* The methods of lib.rs are generated: the branches and the listings.
Generated ==
    /\ pc = "list_str"
    /\ as_str_abbr_branches # None
    /\ list_str_abbr # None

\* if target_enum.display { generated.extend(generated_display_impl) }
GenerateDisplay ==
    /\ Generated
    /\ display_impl = None
    /\ display_impl' = Some(target_enum.display)
    /\ UNCHANGED <<variant_vars, rename, rename_abbr, pc, enum_vars, display, shown,
                   meta_vars>>

\* A call of the generated fmt, on any variant of the enum.
Fmt ==
    /\ display_impl = Some(TRUE)
    /\ \E i \in 1..Len(variants) :
          shown' = Some([symbol |-> variants[i].ident,
                         output |-> fmt(generated, variants[i].ident)])
    /\ UNCHANGED <<variant_vars, rename, rename_abbr, pc, enum_vars, display,
                   display_impl, meta_vars>>

NextDisplay ==
    \/ VariantsCount
    \/ IterVariantIdents
    \/ IterVariantAsStrMatchBranches
    \/ VariantsListString
    \/ IterVariantAsStrAbbrMatchBranches
    \/ VariantsListStringAbbr
    \/ GenerateDisplay
    \/ Fmt

SpecDisplay == InitDisplay /\ [][NextDisplay]_vars

\* The enum with the display option the other way.
OtherDisplay == [target_enum EXCEPT !.display = ~display]

\* C23: with the display option the generated fmt writes, for every variant,
\* skipped or not, its primary string; without the option no Display is
\* generated and none is called; the other outputs are those of the enum
\* with the option the other way.
C23_DisplayIsPrimary ==
    /\ shown # None =>
          /\ display
          /\ \A i \in 1..Len(variants) :
                variants[i].ident = shown[1].symbol =>
                    shown[1].output = ResolvedPrimary(i)
    /\ display_impl # None => display_impl = Some(display)
    /\ variant_count # None => variant_count[1] = variants_count(OtherDisplay)
    /\ variant_idents # None => variant_idents[1] = iter_variant_idents(OtherDisplay)
    /\ as_str_branches # None =>
          as_str_branches[1] = iter_variant_as_str_match_branches(OtherDisplay)
    /\ as_str_abbr_branches # None =>
          as_str_abbr_branches[1] = iter_variant_as_str_abbr_match_branches(OtherDisplay)
    /\ list_str # None => list_str[1] = variants_list_string(OtherDisplay)
    /\ list_str_abbr # None => list_str_abbr[1] = variants_list_string_abbr(OtherDisplay)

\* fmt was called on a skipped variant whose abbreviated string is not its
\* primary string.
C23_Witness ==
    /\ shown # None
    /\ \E i \in 1..Len(variants) :
          /\ variants[i].ident = shown[1].symbol
          /\ variants[i].skip
          /\ ResolvedAbbr(i) # ResolvedPrimary(i)

----------------------------------------------------------------------------
\* FromMeta for the rename strategies (rename/outer.rs, rename/inner.rs).

\* NestedMeta::Meta(Meta::Path), a keyword.
MetaPath(path) == [kind |-> "Path", path |-> path, value |-> <<>>]

\* NestedMeta::Meta(Meta::List) and NestedMeta::Meta(Meta::NameValue).
MetaList == [kind |-> "List", path |-> "", value |-> <<>>]
MetaNameValue == [kind |-> "NameValue", path |-> "", value |-> <<>>]

\* NestedMeta::Lit(Lit::Str) and a literal of another type.
LitStr(value) == [kind |-> "Str", path |-> "", value |-> value]
LitInt == [kind |-> "Int", path |-> "", value |-> <<>>]

\* darling::Result.
Accepted(strategy) == [tag |-> "Ok", strategy |-> <<strategy>>, error |-> ""]
Err(error) == [tag |-> "Err", strategy |-> <<>>, error |-> error]

\* The first item, however many there are.
get_first(items) ==
    IF Len(items) = 0 THEN [tag |-> "Err", item |-> <<>>, error |-> "too_few_items"]
    ELSE [tag |-> "Ok", item |-> <<items[1]>>, error |-> ""]

\* NestedMetaSliceExt::get_one_exactly
get_one_exactly(items) ==
    CASE Len(items) = 1 -> [tag |-> "Ok", item |-> <<items[1]>>, error |-> ""]
      [] Len(items) = 0 -> [tag |-> "Err", item |-> <<>>, error |-> "too_few_items"]
      [] OTHER -> [tag |-> "Err", item |-> <<>>, error |-> "too_many_items"]

\* <OuterRenameStrategy as FromMeta>::from_list
outer_from_list(items) ==
    LET one == get_one_exactly(items)
    IN  IF one.tag = "Err" THEN Err(one.error)
        ELSE LET nested_meta == one.item[1]
             IN  CASE nested_meta.kind = "Path" /\ nested_meta.path = "uppercase" ->
                        Accepted(Uppercase)
                   [] nested_meta.kind = "Path" /\ nested_meta.path = "lowercase" ->
                        Accepted(Lowercase)
                   [] nested_meta.kind = "Path" -> Err("unknown_field")
                   [] OTHER -> Err("unsupported_format")

\* <InnerRenameStrategy as FromMeta>::from_string
inner_from_string(value) == Accepted(Literal(value))

\* <InnerRenameStrategy as FromMeta>::from_list
inner_from_list(items) ==
    LET one == get_one_exactly(items)
    IN  IF one.tag = "Err" THEN Err(one.error)
        ELSE LET nested_meta == one.item[1]
             IN  CASE nested_meta.kind = "Path" /\ nested_meta.path = "uppercase" ->
                        Accepted(Uppercase)
                   [] nested_meta.kind = "Path" /\ nested_meta.path = "lowercase" ->
                        Accepted(Lowercase)
                   [] nested_meta.kind = "Path" -> Err("unknown_field")
                   [] nested_meta.kind \in {"List", "NameValue"} ->
                        Err("unsupported_format")
                   [] nested_meta.kind = "Str" -> Accepted(Literal(nested_meta.value))
                   [] OTHER -> Err("unexpected_lit_type")

\* FromMeta::from_meta with the methods the type does not override: a list
\* goes to from_list, name = "string" to from_string, the rest is an error.
from_meta(level, attribute) ==
    CASE attribute.form = "List" ->
            IF level = "type" THEN outer_from_list(attribute.items)
            ELSE inner_from_list(attribute.items)
      [] attribute.form = "NameValue" /\ attribute.lit[1].kind = "Str" ->
            IF level = "type" THEN Err("unsupported_format")
            ELSE inner_from_string(attribute.lit[1].value)
      [] attribute.form = "NameValue" -> Err("unexpected_lit_type")
      [] OTHER -> Err("unsupported_format")

\* The attributes of the input.

MaxItems == 2

\* The string literals of an attribute: "b" and "ÉÉ".
MetaStrings == {<<98>>, <<201, 201>>}

\* The keywords, one of them unknown.
MetaKeywords == {"uppercase", "lowercase", "titlecase"}

MetaLits == {LitStr(s) : s \in MetaStrings} \cup {LitInt}

NestedMetas == {MetaPath(k) : k \in MetaKeywords} \cup {MetaList, MetaNameValue} \cup MetaLits

\* #[variants(rename(...))], #[variants(rename = ...)] and #[variants(rename)],
\* the same for rename_abbr.
Attributes ==
    UNION {[form : {"List"}, items : [1..n -> NestedMetas], lit : {None}] :
           n \in 0..MaxItems}
        \cup [form : {"NameValue"}, items : {<<>>}, lit : {Some(l) : l \in MetaLits}]
        \cup [form : {"Word"}, items : {<<>>}, lit : {None}]

InitMeta ==
    /\ \E level \in {"type", "variant"}, field \in {"rename", "rename_abbr"},
          attribute \in Attributes :
          meta = Some([level |-> level, field |-> field, attribute |-> attribute])
    /\ parsed = None
    /\ pc = "attribute"
    /\ variant = None
    /\ rename = None
    /\ rename_abbr = None
    /\ name = None
    /\ name_abbr = None
    /\ NoEnum
    /\ NoDisplay

\* darling parses the attribute into the field of TargetEnum or TargetVariant.
FromMeta ==
    /\ pc = "attribute"
    /\ parsed' = Some(from_meta(meta[1].level, meta[1].attribute))
    /\ pc' = "from_meta"
    /\ UNCHANGED <<variant_vars, rename, rename_abbr, enum_vars, display_vars, meta>>

NextMeta == FromMeta

SpecMeta == InitMeta /\ [][NextMeta]_vars

\* The attribute is a list of exactly this one item.
OneItem(attribute, item) == attribute.form = "List" /\ attribute.items = <<item>>

\* What the attribute asks for, where it is valid at the level: nothing
\* otherwise.
Asked(level, attribute) ==
    IF OneItem(attribute, MetaPath("uppercase")) THEN Some(Uppercase)
    ELSE IF OneItem(attribute, MetaPath("lowercase")) THEN Some(Lowercase)
    ELSE IF level = "variant" /\ \E s \in MetaStrings :
                \/ OneItem(attribute, LitStr(s))
                \/ (attribute.form = "NameValue" /\ attribute.lit = Some(LitStr(s)))
    THEN LET s == CHOOSE x \in MetaStrings :
                      \/ OneItem(attribute, LitStr(x))
                      \/ (attribute.form = "NameValue" /\ attribute.lit = Some(LitStr(x)))
         IN  Some(Literal(s))
    ELSE None

\* C24: a type-level rename or rename_abbr is accepted when it is a list of
\* the one keyword uppercase or lowercase, a value-level one also when it
\* is a list of one string literal or name = "string", both giving that
\* literal; everything else is rejected.
C24_ConfigValidation ==
    parsed # None =>
        LET asked == Asked(meta[1].level, meta[1].attribute)
        IN  /\ asked # None => parsed[1] = Accepted(asked[1])
            /\ asked = None => parsed[1].tag = "Err" /\ parsed[1].strategy = None

\* rename = "b" on a variant was parsed into Literal("b").
C24_Witness ==
    /\ parsed = Some(Accepted(Literal(<<98>>)))
    /\ meta[1].attribute.form = "NameValue"
    /\ meta[1].level = "variant"

\* The variant declared i-th, were it not skipped.
Unskipped(i) == [variants[i] EXCEPT !.skip = FALSE]

\* C25: as_str and as_str_abbr have a branch for every variant of the enum,
\* skipped or not, in declaration order, with the strings the cascades give
\* the same variant not skipped.
C25_SkippedHaveNames ==
    /\ as_str_branches # None =>
          /\ Len(as_str_branches[1]) = Len(variants)
          /\ \A i \in 1..Len(variants) :
                /\ as_str_branches[1][i].ident = variants[i].ident
                /\ generated_as_str(as_str_branches[1], variants[i].ident)
                      = as_str(Unskipped(i), rename)
    /\ as_str_abbr_branches # None =>
          /\ Len(as_str_abbr_branches[1]) = Len(variants)
          /\ \A i \in 1..Len(variants) :
                /\ as_str_abbr_branches[1][i].ident = variants[i].ident
                /\ generated_as_str_abbr(as_str_abbr_branches[1], variants[i].ident)
                      = as_str_abbr(Unskipped(i), rename, rename_abbr)

\* A skipped variant Abbb with no policy at either level has the branches
\* "Abbb" and "Abb".
C25_Witness ==
    /\ as_str_abbr_branches # None
    /\ \E i \in 1..Len(variants) :
          /\ variants[i].skip
          /\ as_str_branches[1][i] = [ident |-> <<65, 98, 98, 98>>, name |-> <<65, 98, 98, 98>>]
          /\ as_str_abbr_branches[1][i].name_abbr = <<65, 98, 98>>

\* C26: the quoted items of the primary listing are, in order, the strings
\* iter_variants_as_str yields, those of the abbreviated listing the
\* strings iter_variants_as_str_abbr yields: one item for each variant of the
\* iteration order, as many as the iterable count.
C26_ListingMatchesIteration ==
    /\ list_str # None =>
          /\ Len(quoted_items(list_str[1])) = variant_count[1]
          /\ quoted_items(list_str[1]) =
                generated_iter_variants_as_str(variant_idents[1], as_str_branches[1])
    /\ (list_str_abbr # None /\ as_str_abbr_branches # None) =>
          /\ Len(quoted_items(list_str_abbr[1])) = variant_count[1]
          /\ quoted_items(list_str_abbr[1]) =
                generated_iter_variants_as_str_abbr(variant_idents[1],
                                                    as_str_abbr_branches[1])

\* Both listings and both iterators of an enum whose first variant is
\* skipped and whose second is not.
C26_Witness ==
    /\ list_str_abbr # None
    /\ as_str_abbr_branches # None
    /\ Len(variants) = 2
    /\ variants[1].skip
    /\ ~variants[2].skip
    /\ Len(quoted_items(list_str_abbr[1])) = 1

\* C27: a from_str that finds a variant returns the non-skipped variant
\* declared first among those that have the input as a key; a skipped
\* variant is never returned, whatever its strings.
C27_LookupMinimalNonSkipped ==
    (lookup # None /\ lookup[1].result.tag = "Ok") =>
        \E i \in NonSkipped :
            /\ lookup[1].result = Ok(variants[i].ident)
            /\ HasKey(i, lookup[1].input)
            /\ \A j \in NonSkipped : HasKey(j, lookup[1].input) => i <= j

\* from_str has returned the second variant for a string that is also a
\* string of the first variant, which is skipped.
C27_Witness ==
    /\ lookup # None
    /\ Len(variants) = 2
    /\ variants[1].skip
    /\ HasKey(1, lookup[1].input)
    /\ lookup[1].result = Ok(variants[2].ident)

\* C28: where the variant has a value-level abbreviation policy or a
\* value-level primary policy, or the enum a type-level abbreviation policy,
\* as_str_abbr comes to the same under every type-level primary policy.
C28_PrimaryPolicyOnOnePath ==
    (/\ AbbrResolved
     /\ \/ variant.rename_abbr # None
        \/ rename_abbr # None
        \/ variant.rename # None) =>
        \A outer \in OuterRename :
            as_str_abbr(variant, outer, rename_abbr) = AbbrOutcome

\* Ab under the type-level policies rename(lowercase) and
\* rename_abbr(uppercase): the primary string is "ab", the abbreviation "AB".
C28_Witness ==
    /\ pc = "as_str_abbr"
    /\ variant.ident = <<65, 98>>
    /\ variant.rename = None
    /\ variant.rename_abbr = None
    /\ rename = Some(Lowercase)
    /\ rename_abbr = Some(Uppercase)
    /\ name = Some(<<97, 98>>)
    /\ name_abbr = Some(<<65, 66>>)

\* A byte string with its ASCII letters in lowercase.
FoldAscii(bytes) == [i \in 1..Len(bytes) |-> to_ascii_lowercase(bytes[i])]

\* C29: an abbreviated string that is not a value-level literal is, ASCII
\* letter case set aside, the first three bytes of the primary string (all
\* of it when it is shorter); with no abbreviation policy at either level it
\* is those bytes exactly.
C29_AbbrIsPrefixOfPrimary ==
    (AbbrResolved /\ ~IsLiteral(variant.rename_abbr)) =>
        /\ AbbrOutcome # Panic
        /\ FoldAscii(as_bytes(AbbrOutcome))
              = FoldAscii(FirstBytes(as_bytes(name[1]), AbbrWidth))
        /\ (variant.rename_abbr = None /\ rename_abbr = None) =>
              as_bytes(AbbrOutcome) = FirstBytes(as_bytes(name[1]), AbbrWidth)

\* The case policy in force on the abbreviated path of the variant.
AbbrCasePolicy ==
    IF variant.rename_abbr # None THEN variant.rename_abbr ELSE rename_abbr

\* The string the abbreviation is made of under a case policy: the
\* value-level primary string, or the identifier.
AbbrBase ==
    IF inner_rename(variant) # None THEN inner_rename(variant)[1] ELSE variant.ident

\* C30: under an Uppercase or Lowercase abbreviation policy the abbreviated
\* string is what either path makes of its base: cut then cased, as for an
\* identifier, and cased then cut, as for a value-level primary string;
\* where one panics the other does.
C30_CaseAndTruncationCommute ==
    AbbrResolved =>
        /\ AbbrCasePolicy = Some(Uppercase) =>
              /\ AbbrOutcome = to_uppercase_string_abbr(AbbrBase)
              /\ AbbrOutcome = uppercase_then_abbr(AbbrBase)
        /\ AbbrCasePolicy = Some(Lowercase) =>
              /\ AbbrOutcome = to_lowercase_string_abbr(AbbrBase)
              /\ AbbrOutcome = lowercase_then_abbr(AbbrBase)

\* The identifier ÉAb under rename_abbr(lowercase): "Éa" by the cut first,
\* the lowercase next.
C30_Witness ==
    /\ pc = "as_str_abbr"
    /\ variant.ident = <<201, 65, 98>>
    /\ variant.rename = None
    /\ AbbrCasePolicy = Some(Lowercase)
    /\ name_abbr = Some(<<201, 97>>)

====
